---- MODULE Spec2Model ----
(***************************************************************************)
(* A model of the event-driven generation of htb-tui: the application      *)
(* state (src/src/app.rs, struct App), the key handler                      *)
(* (src/src/handler.rs) and the event bus the application sends its         *)
(* requests to.  The loop that consumes the bus and the tasks it spawns     *)
(* are not among the source files; they are modelled from the              *)
(* specification's sections 4.4 to 4.6 and marked so where they appear.     *)
(***************************************************************************)
EXTENDS Integers, Sequences, FiniteSets, Bags, TLC

(***************************************************************************)
(* Bounds of the model.                                                     *)
(***************************************************************************)
\* longest collection a refresh delivers
MaxMachines == 2
\* longest text the flag buffer is filled to
MaxFlagLen == 1
\* most events and background tasks outstanding at once
MaxInFlight == 1

(***************************************************************************)
(* Option<T>: None is the empty tuple, Some(x) the one-element tuple.       *)
(***************************************************************************)
None == <<>>
Some(x) == <<x>>

(***************************************************************************)
(* serde_json::Value as far as Machine.active meets it.                     *)
(***************************************************************************)
ValueBool(b) == [tag |-> "Bool", b |-> b, n |-> 0]
ValueNumber(n) == [tag |-> "Number", b |-> FALSE, n |-> n]
ValueNull == [tag |-> "Null", b |-> FALSE, n |-> 0]
\* a string holding the digits of n
ValueString(n) == [tag |-> "String", b |-> FALSE, n |-> n]

\* struct Machine, the fields the application logic reads.  A name is the
\* sequence of its bytes.
Machine(id, name, difficulty, uoc, uo, roc, ro, active, ip) ==
    [id |-> id, name |-> name, difficulty |-> difficulty,
     user_owns_count |-> uoc, auth_user_in_user_owns |-> uo,
     root_owns_count |-> roc, auth_user_in_root_owns |-> ro,
     active |-> active, ip |-> ip]

\* is_active taking every number but 0 for true
is_active_truthy(m) ==
    CASE m.active.tag = "Bool" -> m.active.b
      [] m.active.tag = "Number" -> m.active.n # 0
      [] OTHER -> FALSE

\* Machine::is_active
is_active(m) ==
    CASE m.active.tag = "Bool" -> m.active.b
      [] m.active.tag = "Number" -> m.active.n = 1
      [] OTHER -> FALSE

(***************************************************************************)
(* The records the remote catalog serves in this model: A is active and    *)
(* owned twice, B is active (integer 1 on the wire) and lacks the user     *)
(* flag, C is inactive and lacks both.  Sort keys tie pairwise.             *)
(***************************************************************************)
MachineA == Machine(1, <<97>>, 2, 5, TRUE, 3, TRUE, ValueBool(TRUE), Some("10.10.10.1"))
MachineB == Machine(2, <<97, 98>>, 1, 5, FALSE, 4, TRUE, ValueNumber(1), Some("10.10.10.2"))
MachineC == Machine(3, <<98>>, 1, 7, FALSE, 4, FALSE, ValueBool(FALSE), None)
MachinePool == {MachineA, MachineB, MachineC}

\* Vec<Machine> values a successful refresh can carry: ids are unique.
Collections ==
    {c \in UNION {[1..n -> MachinePool] : n \in 0..MaxMachines} :
        \A i, j \in DOMAIN c : i # j => c[i].id # c[j].id}

FilterCriteria == {"None", "UserNotOwns", "RootNotOwns", "UserAndRootNotOwns"}
SortCriteria == {"Difficulty", "UserOwns", "RootOwns", "Name"}
InputMode == {"Normal", "Flag"}

\* crossterm KeyCode values the handler distinguishes
Chars == {"q", "f", "s", "a"}
Key(code, c) == [code |-> code, c |-> c]
KeyCodes ==
    {Key("Char", c) : c \in Chars} \cup
    {Key(code, "") : code \in {"Down", "Up", "Enter", "Esc", "Backspace", "Tab"}}

(***************************************************************************)
(* Projection: filter, then stable sort.                                    *)
(***************************************************************************)
\* the closure whose last arm keeps a record that lacks either flag
retain_pred_either(m, f) ==
    CASE f = "None" -> TRUE
      [] f = "UserNotOwns" -> ~m.auth_user_in_user_owns
      [] f = "RootNotOwns" -> ~m.auth_user_in_root_owns
      [] f = "UserAndRootNotOwns" ->
            ~m.auth_user_in_user_owns \/ ~m.auth_user_in_root_owns

\* the closure handed to retain
retain_pred(m, f) ==
    CASE f = "None" -> TRUE
      [] f = "UserNotOwns" -> ~m.auth_user_in_user_owns
      [] f = "RootNotOwns" -> ~m.auth_user_in_root_owns
      [] f = "UserAndRootNotOwns" ->
            ~m.auth_user_in_user_owns /\ ~m.auth_user_in_root_owns

\* App::filtered_machines
filtered_machines(ms, f) == SelectSeq(ms, LAMBDA m : retain_pred(m, f))

\* Ord::cmp on u64
CmpNat(a, b) == IF a < b THEN "Less" ELSE IF a = b THEN "Equal" ELSE "Greater"

\* Ord::cmp on String: lexicographic on bytes
RECURSIVE CmpStr(_, _)
CmpStr(a, b) ==
    IF a = <<>> THEN (IF b = <<>> THEN "Equal" ELSE "Less")
    ELSE IF b = <<>> THEN "Greater"
    ELSE IF Head(a) # Head(b) THEN CmpNat(Head(a), Head(b))
    ELSE CmpStr(Tail(a), Tail(b))

\* the comparator handed to sort_by
compare(a, b, s) ==
    CASE s = "Difficulty" -> CmpNat(a.difficulty, b.difficulty)
      [] s = "UserOwns" -> CmpNat(b.user_owns_count, a.user_owns_count)
      [] s = "RootOwns" -> CmpNat(b.root_owns_count, a.root_owns_count)
      [] s = "Name" -> CmpStr(a.name, b.name)

\* an insertion that puts x before the elements equal to it
RECURSIVE InsertUnstable(_, _, _)
InsertUnstable(x, sorted, s) ==
    IF sorted = <<>> THEN <<x>>
    ELSE IF compare(x, Head(sorted), s) # "Greater" THEN <<x>> \o sorted
    ELSE <<Head(sorted)>> \o InsertUnstable(x, Tail(sorted), s)

\* slice::sort_by is stable: x, later in the input than all of sorted, goes
\* before the first element strictly greater than it.
RECURSIVE InsertStable(_, _, _)
InsertStable(x, sorted, s) ==
    IF sorted = <<>> THEN <<x>>
    ELSE IF compare(x, Head(sorted), s) = "Less" THEN <<x>> \o sorted
    ELSE <<Head(sorted)>> \o InsertStable(x, Tail(sorted), s)

RECURSIVE sort_by(_, _)
sort_by(ms, s) ==
    IF ms = <<>> THEN <<>>
    ELSE InsertStable(ms[Len(ms)], sort_by(SubSeq(ms, 1, Len(ms) - 1), s), s)

RECURSIVE Reverse(_)
Reverse(ms) == IF ms = <<>> THEN <<>> ELSE Append(Reverse(Tail(ms)), Head(ms))

\* sorted_machines handing back the sorted vector last element first
sorted_machines_reversed(ms, s) == Reverse(sort_by(ms, s))

\* App::sorted_machines
sorted_machines(ms, s) == sort_by(ms, s)

\* filtered_machines followed by sorted_machines, as every caller does
project(ms, f, s) == sorted_machines(filtered_machines(ms, f), s)

\* usize::saturating_sub
saturating_sub(a, b) == IF a >= b THEN a - b ELSE 0

(***************************************************************************)
(* Messages are the sequences of the pieces format! concatenates.           *)
(***************************************************************************)
EmptyString == <<>>
IdText(id) == ToString(id)

VARIABLES
    running,              \* App.running
    machines,             \* App.machines
    selected,             \* App.state.selected()
    info_message,         \* App.info_message
    filter_criteria,      \* App.filter_criteria
    sort_criteria,        \* App.sort_criteria
    input_mode,           \* App.input_mode
    flag_input,           \* App.flag_input, a sequence of characters
    show_input_field,     \* App.show_input_field
    selected_machine_ip,  \* App.selected_machine_ip
    selected_machine_id,  \* App.selected_machine_id
    bus,                  \* the channel behind App.event_sender
    tasks,                \* background tasks in flight (a bag)
    catalog,              \* what the remote service answers
    fetch,                \* the call of fetch_all_machines in progress
    last                  \* history: the step taken last and the state before it

appVars == <<running, machines, selected, info_message, filter_criteria,
             sort_criteria, input_mode, flag_input, show_input_field,
             selected_machine_ip, selected_machine_id>>
vars == <<running, machines, selected, info_message, filter_criteria,
          sort_criteria, input_mode, flag_input, show_input_field,
          selected_machine_ip, selected_machine_id, bus, tasks, catalog,
          fetch, last>>

\* the projection in the current state
Projection == project(machines, filter_criteria, sort_criteria)

\* Result<Vec<Machine>, String> as RefreshResult carries it
FetchOk(ms) == [ok |-> TRUE, machines |-> ms, e |-> EmptyString]
FetchErr(e) == [ok |-> FALSE, machines |-> <<>>, e |-> e]
\* the payload of an event that carries no collection
NoResult == FetchErr(EmptyString)

Event(type, id, flag) ==
    [type |-> type, id |-> id, flag |-> flag, result |-> NoResult]

\* UnboundedSender::send
Send(e) == bus' = Append(bus, e)

InFlight == Len(bus) + BagCardinality(tasks)

(***************************************************************************)
(* App                                                                      *)
(***************************************************************************)
\* App::update_input_fields, run on the state the caller has just written
update_input_fields ==
    /\ IF selected' # None
       THEN LET sorted == project(machines', filter_criteria', sort_criteria')
                sel == selected'[1]
            IN  IF sel < Len(sorted)
                THEN LET machine == sorted[sel + 1]
                     IN  /\ show_input_field' =
                              (is_active(machine)
                               /\ (~machine.auth_user_in_user_owns
                                   \/ ~machine.auth_user_in_root_owns))
                         /\ selected_machine_ip' = machine.ip
                ELSE /\ show_input_field' = FALSE
                     /\ selected_machine_ip' = None
       ELSE /\ show_input_field' = FALSE
            /\ selected_machine_ip' = None
    /\ UNCHANGED selected_machine_id

\* App::quit
quit ==
    /\ running' = FALSE
    /\ UNCHANGED <<machines, selected, info_message, filter_criteria,
                   sort_criteria, input_mode, flag_input, show_input_field,
                   selected_machine_ip, selected_machine_id, bus>>

\* next with the wrap test off by one (> for >=)
next_off_by_one ==
    /\ LET sorted == Projection
           i == IF selected # None
                THEN (IF selected[1] > saturating_sub(Len(sorted), 1)
                      THEN 0
                      ELSE selected[1] + 1)
                ELSE 0
       IN  selected' = Some(i)
    /\ UNCHANGED <<running, machines, info_message, filter_criteria,
                   sort_criteria, input_mode, flag_input, bus>>
    /\ update_input_fields

\* App::next
next ==
    /\ LET sorted == Projection
           i == IF selected # None
                THEN (IF selected[1] >= saturating_sub(Len(sorted), 1)
                      THEN 0
                      ELSE selected[1] + 1)
                ELSE 0
       IN  selected' = Some(i)
    /\ UNCHANGED <<running, machines, info_message, filter_criteria,
                   sort_criteria, input_mode, flag_input, bus>>
    /\ update_input_fields

\* App::previous
previous ==
    /\ LET sorted == Projection
           i == IF selected # None
                THEN (IF selected[1] = 0
                      THEN saturating_sub(Len(sorted), 1)
                      ELSE selected[1] - 1)
                ELSE 0
       IN  selected' = Some(i)
    /\ UNCHANGED <<running, machines, info_message, filter_criteria,
                   sort_criteria, input_mode, flag_input, bus>>
    /\ update_input_fields

\* App::request_fetch_machines
request_fetch_machines ==
    /\ Send(Event("FetchMachines", 0, EmptyString))
    /\ UNCHANGED appVars

\* handle_fetch_machines_result without the call of update_input_fields
handle_fetch_machines_result_stale(result) ==
    IF result.ok
    THEN /\ machines' = result.machines
         /\ UNCHANGED <<running, selected, info_message, filter_criteria,
                        sort_criteria, input_mode, flag_input,
                        show_input_field, selected_machine_ip,
                        selected_machine_id>>
    ELSE /\ info_message' = <<"Error fetching machines: ">> \o result.e
         /\ UNCHANGED <<running, machines, selected, filter_criteria,
                        sort_criteria, input_mode, flag_input,
                        show_input_field, selected_machine_ip,
                        selected_machine_id>>

\* App::handle_fetch_machines_result; result is [ok, machines, e]
handle_fetch_machines_result(result) ==
    IF result.ok
    THEN /\ machines' = result.machines
         /\ UNCHANGED <<running, selected, info_message, filter_criteria,
                        sort_criteria, input_mode, flag_input>>
         /\ update_input_fields
    ELSE /\ info_message' = <<"Error fetching machines: ">> \o result.e
         /\ UNCHANGED <<running, machines, selected, filter_criteria,
                        sort_criteria, input_mode, flag_input,
                        show_input_field, selected_machine_ip,
                        selected_machine_id>>

\* request_spawn_machine reading the raw collection for the projection
request_spawn_machine_raw ==
    /\ IF selected # None
       THEN IF selected[1] < Len(machines)
            THEN Send(Event("SpawnMachine",
                            machines[selected[1] + 1].id,
                            EmptyString))
            ELSE UNCHANGED bus
       ELSE UNCHANGED bus
    /\ UNCHANGED appVars

\* App::request_spawn_machine
request_spawn_machine ==
    /\ IF selected # None
       THEN LET sorted_machines_ == Projection
            IN  IF selected[1] < Len(sorted_machines_)
                THEN Send(Event("SpawnMachine",
                                sorted_machines_[selected[1] + 1].id,
                                EmptyString))
                ELSE UNCHANGED bus
       ELSE UNCHANGED bus
    /\ UNCHANGED appVars

\* handle_spawn_machine_result that drops the message of a success
handle_spawn_machine_result_silent(result) ==
    /\ info_message' = IF result.ok
                       THEN info_message
                       ELSE <<"Error spawning machine: ">> \o result.text
    /\ UNCHANGED <<running, machines, selected, filter_criteria,
                   sort_criteria, input_mode, flag_input, show_input_field,
                   selected_machine_ip, selected_machine_id>>

\* App::handle_spawn_machine_result; result is [ok, text]
handle_spawn_machine_result(result) ==
    /\ info_message' = IF result.ok
                       THEN result.text
                       ELSE <<"Error spawning machine: ">> \o result.text
    /\ UNCHANGED <<running, machines, selected, filter_criteria,
                   sort_criteria, input_mode, flag_input, show_input_field,
                   selected_machine_ip, selected_machine_id>>

\* request_submit_flag that also returns to Normal mode
request_submit_flag_leaves_mode ==
    /\ IF selected_machine_id # None
       THEN Send(Event("SubmitFlag", selected_machine_id[1], flag_input))
       ELSE UNCHANGED bus
    /\ input_mode' = "Normal"
    /\ UNCHANGED <<running, machines, selected, info_message, filter_criteria,
                   sort_criteria, flag_input, show_input_field,
                   selected_machine_ip, selected_machine_id>>

\* App::request_submit_flag
request_submit_flag ==
    /\ IF selected_machine_id # None
       THEN Send(Event("SubmitFlag", selected_machine_id[1], flag_input))
       ELSE UNCHANGED bus
    /\ UNCHANGED appVars

\* handle_submit_flag_result that clears the buffer whatever the result
handle_submit_flag_result_clears(result) ==
    /\ info_message' = IF result.ok
                       THEN result.text
                       ELSE <<"Error sending flag: ">> \o result.text
    /\ flag_input' = EmptyString
    /\ UNCHANGED <<running, machines, selected, filter_criteria,
                   sort_criteria, input_mode, show_input_field,
                   selected_machine_ip, selected_machine_id>>

\* App::handle_submit_flag_result; result is [ok, text]
handle_submit_flag_result(result) ==
    /\ info_message' = IF result.ok
                       THEN result.text
                       ELSE <<"Error sending flag: ">> \o result.text
    /\ UNCHANGED <<running, machines, selected, filter_criteria,
                   sort_criteria, input_mode, flag_input, show_input_field,
                   selected_machine_ip, selected_machine_id>>

\* the match of cycle_filter whose third arm goes back to None
next_filter_skips(f) ==
    CASE f = "None" -> "UserNotOwns"
      [] f = "UserNotOwns" -> "RootNotOwns"
      [] f = "RootNotOwns" -> "None"
      [] f = "UserAndRootNotOwns" -> "None"

\* the match in App::cycle_filter
next_filter(f) ==
    CASE f = "None" -> "UserNotOwns"
      [] f = "UserNotOwns" -> "RootNotOwns"
      [] f = "RootNotOwns" -> "UserAndRootNotOwns"
      [] f = "UserAndRootNotOwns" -> "None"

\* cycle_filter without state.select(None)
cycle_filter_keeps_selection ==
    /\ filter_criteria' = next_filter(filter_criteria)
    /\ selected' = selected
    /\ UNCHANGED <<running, machines, info_message, sort_criteria,
                   input_mode, flag_input, bus>>
    /\ update_input_fields

\* App::cycle_filter
cycle_filter ==
    /\ filter_criteria' = next_filter(filter_criteria)
    /\ selected' = None
    /\ UNCHANGED <<running, machines, info_message, sort_criteria,
                   input_mode, flag_input, bus>>
    /\ update_input_fields

\* the match in App::cycle_sort
next_sort(s) ==
    CASE s = "Difficulty" -> "UserOwns"
      [] s = "UserOwns" -> "RootOwns"
      [] s = "RootOwns" -> "Name"
      [] s = "Name" -> "Difficulty"

\* App::cycle_sort
cycle_sort ==
    /\ sort_criteria' = next_sort(sort_criteria)
    /\ selected' = None
    /\ UNCHANGED <<running, machines, info_message, filter_criteria,
                   input_mode, flag_input, bus>>
    /\ update_input_fields

\* enter_flag_input_mode testing the selection for show_input_field
enter_flag_input_mode_any_selected ==
    /\ input_mode' = IF selected # None THEN "Flag" ELSE input_mode
    /\ UNCHANGED <<running, machines, selected, info_message, filter_criteria,
                   sort_criteria, flag_input, show_input_field,
                   selected_machine_ip, selected_machine_id, bus>>

\* enter_flag_input_mode without the test of show_input_field
enter_flag_input_mode_unguarded ==
    /\ input_mode' = "Flag"
    /\ UNCHANGED <<running, machines, selected, info_message, filter_criteria,
                   sort_criteria, flag_input, show_input_field,
                   selected_machine_ip, selected_machine_id, bus>>

\* App::enter_flag_input_mode
enter_flag_input_mode ==
    /\ input_mode' = IF show_input_field THEN "Flag" ELSE input_mode
    /\ UNCHANGED <<running, machines, selected, info_message, filter_criteria,
                   sort_criteria, flag_input, show_input_field,
                   selected_machine_ip, selected_machine_id, bus>>

\* App::set_info_message
set_info_message(message) ==
    /\ info_message' = message
    /\ UNCHANGED <<running, machines, selected, filter_criteria,
                   sort_criteria, input_mode, flag_input, show_input_field,
                   selected_machine_ip, selected_machine_id>>

\* String::pop taking the first character for the last
pop_front(s) == IF s = <<>> THEN s ELSE Tail(s)

\* String::pop
pop(s) == IF s = <<>> THEN s ELSE SubSeq(s, 1, Len(s) - 1)

\* handle_key_events whose Esc arm also clears the buffer
handle_key_events_esc_clears(key_event) ==
    IF input_mode = "Normal"
    THEN CASE key_event = Key("Char", "q") -> quit
           [] key_event = Key("Char", "f") -> cycle_filter
           [] key_event = Key("Char", "s") -> cycle_sort
           [] key_event = Key("Down", "") -> next
           [] key_event = Key("Up", "") -> previous
           [] key_event = Key("Char", "a") -> enter_flag_input_mode
           [] key_event = Key("Enter", "") -> request_spawn_machine
           [] OTHER -> UNCHANGED <<appVars, bus>>
    ELSE CASE key_event.code = "Esc" ->
                /\ input_mode' = "Normal"
                /\ flag_input' = EmptyString
                /\ UNCHANGED <<running, machines, selected, info_message,
                               filter_criteria, sort_criteria,
                               show_input_field, selected_machine_ip,
                               selected_machine_id, bus>>
           [] key_event.code = "Enter" -> request_submit_flag
           [] key_event.code = "Char" ->
                /\ flag_input' = Append(flag_input, key_event.c)
                /\ UNCHANGED <<running, machines, selected, info_message,
                               filter_criteria, sort_criteria, input_mode,
                               show_input_field, selected_machine_ip,
                               selected_machine_id, bus>>
           [] key_event.code = "Backspace" ->
                /\ flag_input' = pop(flag_input)
                /\ UNCHANGED <<running, machines, selected, info_message,
                               filter_criteria, sort_criteria, input_mode,
                               show_input_field, selected_machine_ip,
                               selected_machine_id, bus>>
           [] OTHER -> UNCHANGED <<appVars, bus>>

\* handle_key_events matching q before the input mode
handle_key_events_q_first(key_event) ==
    IF key_event = Key("Char", "q")
    THEN quit
    ELSE IF input_mode = "Normal"
    THEN CASE key_event = Key("Char", "q") -> quit
           [] key_event = Key("Char", "f") -> cycle_filter
           [] key_event = Key("Char", "s") -> cycle_sort
           [] key_event = Key("Down", "") -> next
           [] key_event = Key("Up", "") -> previous
           [] key_event = Key("Char", "a") -> enter_flag_input_mode
           [] key_event = Key("Enter", "") -> request_spawn_machine
           [] OTHER -> UNCHANGED <<appVars, bus>>
    ELSE CASE key_event.code = "Esc" ->
                /\ input_mode' = "Normal"
                /\ UNCHANGED <<running, machines, selected, info_message,
                               filter_criteria, sort_criteria, flag_input,
                               show_input_field, selected_machine_ip,
                               selected_machine_id, bus>>
           [] key_event.code = "Enter" -> request_submit_flag
           [] key_event.code = "Char" ->
                /\ flag_input' = Append(flag_input, key_event.c)
                /\ UNCHANGED <<running, machines, selected, info_message,
                               filter_criteria, sort_criteria, input_mode,
                               show_input_field, selected_machine_ip,
                               selected_machine_id, bus>>
           [] key_event.code = "Backspace" ->
                /\ flag_input' = pop(flag_input)
                /\ UNCHANGED <<running, machines, selected, info_message,
                               filter_criteria, sort_criteria, input_mode,
                               show_input_field, selected_machine_ip,
                               selected_machine_id, bus>>
           [] OTHER -> UNCHANGED <<appVars, bus>>

\* handle_key_events
handle_key_events(key_event) ==
    IF input_mode = "Normal"
    THEN CASE key_event = Key("Char", "q") -> quit
           [] key_event = Key("Char", "f") -> cycle_filter
           [] key_event = Key("Char", "s") -> cycle_sort
           [] key_event = Key("Down", "") -> next
           [] key_event = Key("Up", "") -> previous
           [] key_event = Key("Char", "a") -> enter_flag_input_mode
           [] key_event = Key("Enter", "") -> request_spawn_machine
           [] OTHER -> UNCHANGED <<appVars, bus>>
    ELSE CASE key_event.code = "Esc" ->
                /\ input_mode' = "Normal"
                /\ UNCHANGED <<running, machines, selected, info_message,
                               filter_criteria, sort_criteria, flag_input,
                               show_input_field, selected_machine_ip,
                               selected_machine_id, bus>>
           [] key_event.code = "Enter" -> request_submit_flag
           [] key_event.code = "Char" ->
                /\ flag_input' = Append(flag_input, key_event.c)
                /\ UNCHANGED <<running, machines, selected, info_message,
                               filter_criteria, sort_criteria, input_mode,
                               show_input_field, selected_machine_ip,
                               selected_machine_id, bus>>
           [] key_event.code = "Backspace" ->
                /\ flag_input' = pop(flag_input)
                /\ UNCHANGED <<running, machines, selected, info_message,
                               filter_criteria, sort_criteria, input_mode,
                               show_input_field, selected_machine_ip,
                               selected_machine_id, bus>>
           [] OTHER -> UNCHANGED <<appVars, bus>>

(***************************************************************************)
(* The remote service as fetch_all_machines meets it: the first page of    *)
(* the active list, the retired list as a chain of pages linked by next,   *)
(* and the answer of the profile endpoint for each active record.           *)
(***************************************************************************)
\* most pages of the retired series
MaxPages == 3

\* a record as the paginated endpoints serve it: without its address
Listed(m) == [m EXCEPT !.ip = None]

\* the one record of page i of the retired series; its active field is null
RetiredMachine(i) ==
    Machine(10 + i, <<98 + i>>, 1 + (i % 2), i, FALSE, i, FALSE, ValueNull, None)

\* the address the profile endpoint knows for a record
ProfileIp(id) == IF id = 1 THEN "10.10.10.1" ELSE "10.10.10.2"

\* the answer to one page request: an error, or struct Root (data, links.next)
Page(ok, data, link) == [ok |-> ok, data |-> data, next |-> link]
FailedPage == Page(FALSE, <<>>, None)

\* the urls: the two list endpoints, and page i > 1 of the retired series
ActiveUrl == 0
RetiredUrl == 1

\* answers of the profile endpoint: the address, a transport error, or a
\* body without info.ip
ProfileAnswers == {"ip", "transport", "no_ip"}

\* the service with n retired pages, whose page request f fails (none fails
\* when f > n) and whose profile endpoint answers p for record 2
Serve(n, f, p) ==
    [active |-> IF f = ActiveUrl
                THEN FailedPage
                ELSE Page(TRUE, <<Listed(MachineA), Listed(MachineB)>>, None),
     retired |-> [i \in 1..n |->
                    IF f = i
                    THEN FailedPage
                    ELSE Page(TRUE, <<RetiredMachine(i)>>,
                              IF i < n THEN Some(i + 1) ELSE None)],
     profile |-> [id \in {MachineA.id, MachineB.id} |->
                    IF id = MachineB.id THEN p ELSE "ip"]]

\* the services of the model: every length of the retired series, every
\* answer of the profile endpoint, every page request failing
Catalogs ==
    {Serve(n, n + 1, "ip") : n \in 1..MaxPages} \cup
    {Serve(MaxPages, MaxPages + 1, p) : p \in ProfileAnswers} \cup
    {Serve(MaxPages, f, "ip") : f \in 0..MaxPages}

PageAt(cat, url) == IF url = ActiveUrl THEN cat.active ELSE cat.retired[url]

\* the body of the enrichment loop for one record
enrich(cat, machine) ==
    IF is_active(machine)
    THEN IF cat.profile[machine.id] = "ip"
         THEN [machine EXCEPT !.ip = Some(ProfileIp(machine.id))]
         ELSE machine
    ELSE machine

\* the error a failed page request converts to
PageError(url) == <<"error sending request for url ", ToString(url)>>

\* fetch_machines whose detail request propagates its error
fetch_machines_strict(cat, url) ==
    LET res == PageAt(cat, url)
        detail_fails ==
            \E i \in DOMAIN res.data :
                is_active(res.data[i]) /\ cat.profile[res.data[i].id] = "transport"
    IN  IF res.ok /\ ~detail_fails
        THEN [ok |-> TRUE,
              data |-> [i \in DOMAIN res.data |-> enrich(cat, res.data[i])],
              next |-> res.next, e |-> EmptyString]
        ELSE [ok |-> FALSE, data |-> <<>>, next |-> None, e |-> PageError(url)]

\* fetch_machines
fetch_machines(cat, url) ==
    LET res == PageAt(cat, url)
    IN  IF res.ok
        THEN [ok |-> TRUE,
              data |-> [i \in DOMAIN res.data |-> enrich(cat, res.data[i])],
              next |-> res.next, e |-> EmptyString]
        ELSE [ok |-> FALSE, data |-> <<>>, next |-> None, e |-> PageError(url)]

\* fetch_all_machines at one of its await points: pc is the request it is
\* about to make, all_machines and next its locals, result what it returned
Fetching(pc, all_machines, link, result) ==
    [pc |-> pc, all_machines |-> all_machines, next |-> link, result |-> result]
FetchIdle == Fetching("idle", <<>>, None, NoResult)

(***************************************************************************)
(* History: what the last step was and what it started from.                *)
(***************************************************************************)
Step(op, key, ok, sent) ==
    [op |-> op, key |-> key, ok |-> ok, sent |-> sent,
     selected |-> selected, input_mode |-> input_mode]

NoKey == Key("", "")

\* App::new
Init ==
    /\ running = TRUE
    /\ machines = <<>>
    /\ selected = None
    /\ info_message = EmptyString
    /\ filter_criteria = "None"
    /\ sort_criteria = "Difficulty"
    /\ input_mode = "Normal"
    /\ flag_input = EmptyString
    /\ show_input_field = FALSE
    /\ selected_machine_ip = None
    /\ selected_machine_id = None
    /\ bus = <<>>
    /\ tasks = EmptyBag
    /\ catalog = Serve(1, 2, "ip")
    /\ fetch = FetchIdle
    /\ last = Step("new", NoKey, TRUE, <<>>)

(***************************************************************************)
(* Steps of the event loop.                                                 *)
(***************************************************************************)
\* a key press reaches handle_key_events; the buffer is typed into up to len
\* characters and the step leaves at most n events and tasks outstanding
KeyPressWithin(k, len, n) ==
    /\ running
    /\ Len(flag_input) < len \/ input_mode = "Normal" \/ k.code # "Char"
    /\ handle_key_events(k)
    /\ UNCHANGED <<tasks, catalog, fetch>>
    /\ Len(bus') + BagCardinality(tasks) <= n
    /\ last' = Step("key", k, TRUE, SubSeq(bus', Len(bus) + 1, Len(bus')))

KeyPress(k) == KeyPressWithin(k, MaxFlagLen, MaxInFlight)

(***************************************************************************)
(* Remote Resource Gateway: the outcome of one request.                     *)
(***************************************************************************)
\* what reqwest hands back: a transport error or a response with a status
Response(transport_ok, status) == [transport_ok |-> transport_ok, status |-> status]
Responses == {Response(FALSE, 0), Response(TRUE, 200), Response(TRUE, 500)}

\* a test of the status that takes 200 alone for a success
is_success_ok_only(status) == status = 200

\* StatusCode::is_success
is_success(status) == 200 <= status /\ status < 300

\* Result<String, String>
Ok(text) == [ok |-> TRUE, text |-> text]
Err(text) == [ok |-> FALSE, text |-> text]

\* spawn_machine, given the outcome of its POST
spawn_machine(res, machine_id) ==
    IF res.transport_ok
    THEN IF is_success(res.status)
         THEN Ok(<<"Machine ", IdText(machine_id), " spawned successfully">>)
         ELSE Err(<<"Failed to spawn with status: ", ToString(res.status)>>)
    ELSE Err(<<"Network request failed: ", "transport">>)

\* submit_flag, given the outcome of its POST
submit_flag(res, machine_id, flag) ==
    IF res.transport_ok
    THEN IF is_success(res.status)
         THEN Ok(<<"Flag for machine ", IdText(machine_id), " is correct">>)
         ELSE Err(<<"Wrong flag for machine ", IdText(machine_id)>>)
    ELSE Err(<<"Network request failed: ", "transport">>)

(***************************************************************************)
(* The consumer of the bus and the background tasks (specification 4.4 to   *)
(* 4.6).  A result event carries its payload from the moment the task posts *)
(* it; nothing reads the payload before the state owner consumes the event, *)
(* so the model draws it when the event is consumed.                        *)
(***************************************************************************)
Requests == {"FetchMachines", "SpawnMachine", "SubmitFlag"}
Results == {"RefreshResult", "StartResult", "SubmitResult"}

\* the result event a task posts for the request it was spawned for
ResultOf(request) ==
    CASE request.type = "FetchMachines" -> Event("RefreshResult", 0, EmptyString)
      [] request.type = "SpawnMachine" -> Event("StartResult", request.id, EmptyString)
      [] request.type = "SubmitFlag" -> Event("SubmitResult", request.id, request.flag)

\* a refresh is asked for from outside the handlers (the bootstrap's first
\* request): one call of request_fetch_machines, with fewer than n events
\* and tasks outstanding
RequestRefreshWithin(n) ==
    /\ running
    /\ InFlight < n
    /\ request_fetch_machines
    /\ UNCHANGED <<tasks, catalog, fetch>>
    /\ last' = Step("request_refresh", NoKey, TRUE, <<Event("FetchMachines", 0, EmptyString)>>)

RequestRefresh == RequestRefreshWithin(MaxInFlight)

\* Task Orchestrator: one unit of work per request at the head of the bus
SpawnTask ==
    /\ running
    /\ bus # <<>>
    /\ Head(bus).type \in Requests
    /\ bus' = Tail(bus)
    /\ tasks' = tasks (+) SetToBag({Head(bus)})
    /\ UNCHANGED <<appVars, catalog, fetch>>
    /\ last' = Step("spawn_task", NoKey, TRUE, <<>>)

\* a unit of work that posts its result event twice
TaskDone_twice(t) ==
    /\ running
    /\ BagIn(t, tasks)
    /\ tasks' = tasks (-) SetToBag({t})
    /\ bus' = bus \o <<ResultOf(t), ResultOf(t)>>
    /\ UNCHANGED <<appVars, catalog, fetch>>
    /\ last' = Step("task_done", NoKey, TRUE, <<ResultOf(t)>>)

\* a unit of work ends and posts its one result event
TaskDone(t) ==
    /\ running
    /\ BagIn(t, tasks)
    /\ tasks' = tasks (-) SetToBag({t})
    /\ Send(ResultOf(t))
    /\ UNCHANGED <<appVars, catalog, fetch>>
    /\ last' = Step("task_done", NoKey, TRUE, <<ResultOf(t)>>)

ListChanged == Event("ListChanged", 0, EmptyString)

\* the state owner consumes a result event; fetched and responses are the
\* payloads the tasks of this run can have posted
ConsumeResult(fetched, responses) ==
    /\ running
    /\ bus # <<>>
    /\ Head(bus).type \in Results
    /\ UNCHANGED <<tasks, catalog, fetch>>
    /\ LET e == Head(bus)
       IN  CASE e.type = "RefreshResult" ->
                  \E result \in fetched :
                     /\ handle_fetch_machines_result(result)
                     /\ bus' = Tail(bus)
                     /\ last' = Step("refresh_result", NoKey, result.ok, <<>>)
             [] e.type = "StartResult" ->
                  \E res \in responses :
                     LET result == spawn_machine(res, e.id)
                     IN  /\ handle_spawn_machine_result(result)
                         /\ bus' = IF result.ok
                                   THEN Append(Tail(bus), ListChanged)
                                   ELSE Tail(bus)
                         /\ last' = Step("start_result", NoKey, result.ok,
                                         IF result.ok THEN <<ListChanged>> ELSE <<>>)
             [] e.type = "SubmitResult" ->
                  \E res \in responses :
                     LET result == submit_flag(res, e.id, e.flag)
                     IN  /\ handle_submit_flag_result(result)
                         /\ bus' = IF result.ok
                                   THEN Append(Tail(bus), ListChanged)
                                   ELSE Tail(bus)
                         /\ last' = Step("submit_result", NoKey, result.ok,
                                         IF result.ok THEN <<ListChanged>> ELSE <<>>)

\* the state owner consumes ListChanged: a full refresh is requested
ConsumeListChanged ==
    /\ running
    /\ bus # <<>>
    /\ Head(bus) = ListChanged
    /\ bus' = Append(Tail(bus), Event("FetchMachines", 0, EmptyString))
    /\ UNCHANGED appVars
    /\ UNCHANGED <<tasks, catalog, fetch>>
    /\ last' = Step("list_changed", NoKey, TRUE, <<Event("FetchMachines", 0, EmptyString)>>)

\* Result<Vec<Machine>, String> values over the collections cs
FetchResultsOf(cs) ==
    {FetchOk(c) : c \in cs} \cup {FetchErr(<<"transport">>)}

(***************************************************************************)
(* The unit of work of a refresh, one request of fetch_all_machines a      *)
(* step.  One refresh runs at a time here, and the service does not change *)
(* while it runs.                                                           *)
(***************************************************************************)
\* Task Orchestrator: the unit of work for the request at the head of the bus
StartFetch ==
    /\ bus # <<>>
    /\ Head(bus).type = "FetchMachines"
    /\ fetch.pc = "idle"
    /\ bus' = Tail(bus)
    /\ fetch' = Fetching("active", <<>>, None, NoResult)
    /\ UNCHANGED <<appVars, tasks, catalog>>
    /\ last' = Step("start_fetch", NoKey, TRUE, <<>>)

\* a request of fetch_all_machines whose failure returns what was collected
FetchPage_partial(url, after) ==
    LET res == fetch_machines(catalog, url)
    IN  /\ fetch' = IF res.ok
                    THEN Fetching(after, fetch.all_machines \o res.data,
                                  res.next, NoResult)
                    ELSE Fetching("done", fetch.all_machines, None,
                                  FetchOk(fetch.all_machines))
        /\ UNCHANGED <<appVars, bus, tasks, catalog>>
        /\ last' = Step("fetch_page", NoKey, res.ok, <<>>)

\* a request of fetch_all_machines that replaces what was collected so far
FetchPage_forgets(url, after) ==
    LET res == fetch_machines(catalog, url)
    IN  /\ fetch' = IF res.ok
                    THEN Fetching(after, res.data, res.next, NoResult)
                    ELSE Fetching("done", fetch.all_machines, None, FetchErr(res.e))
        /\ UNCHANGED <<appVars, bus, tasks, catalog>>
        /\ last' = Step("fetch_page", NoKey, res.ok, <<>>)

\* one request of fetch_all_machines for url: a failure returns the error,
\* a page extends all_machines and leaves the function at pc after
FetchPage(url, after) ==
    LET res == fetch_machines(catalog, url)
    IN  /\ fetch' = IF res.ok
                    THEN Fetching(after, fetch.all_machines \o res.data,
                                  res.next, NoResult)
                    ELSE Fetching("done", fetch.all_machines, None, FetchErr(res.e))
        /\ UNCHANGED <<appVars, bus, tasks, catalog>>
        /\ last' = Step("fetch_page", NoKey, res.ok, <<>>)

\* the active list: its links are not read
FetchActive ==
    /\ fetch.pc = "active"
    /\ LET res == fetch_machines(catalog, ActiveUrl)
       IN  fetch' = IF res.ok
                    THEN Fetching("retired", fetch.all_machines \o res.data,
                                  None, NoResult)
                    ELSE Fetching("done", fetch.all_machines, None, FetchErr(res.e))
    /\ UNCHANGED <<appVars, bus, tasks, catalog>>
    /\ last' = Step("fetch_page", NoKey, fetch'.pc # "done", <<>>)

\* the first page of the retired list
FetchRetired ==
    /\ fetch.pc = "retired"
    /\ FetchPage(RetiredUrl, "while")

\* the body of while let Some(next_url) = res.links.next
FetchNext ==
    /\ fetch.pc = "while"
    /\ fetch.next # None
    /\ FetchPage(fetch.next[1], "while")

\* the loop ends at a page without a next link: Ok(all_machines)
FetchReturn ==
    /\ fetch.pc = "while"
    /\ fetch.next = None
    /\ fetch' = Fetching("done", fetch.all_machines, None,
                         FetchOk(fetch.all_machines))
    /\ UNCHANGED <<appVars, bus, tasks, catalog>>
    /\ last' = Step("fetch_return", NoKey, TRUE, <<>>)

\* the unit of work posts its one RefreshResult, carrying what was returned
PostRefreshResult ==
    /\ fetch.pc = "done"
    /\ Send([Event("RefreshResult", 0, EmptyString) EXCEPT !.result = fetch.result])
    /\ fetch' = FetchIdle
    /\ UNCHANGED <<appVars, tasks, catalog>>
    /\ last' = Step("post_refresh_result", NoKey, fetch.result.ok, <<>>)

\* the state owner consumes the result event at the head of the bus with
\* the payload it carries
ConsumeFetched ==
    /\ bus # <<>>
    /\ ConsumeResult({Head(bus).result}, Responses)

\* the service changes between two refreshes
CatalogChanges ==
    /\ fetch.pc = "idle"
    /\ bus = <<>>
    /\ \E c \in Catalogs : catalog' = c
    /\ catalog' # catalog
    /\ UNCHANGED <<appVars, bus, tasks, fetch>>
    /\ last' = Step("catalog_changes", NoKey, TRUE, <<>>)

\* the whole loop: every key, every collection, every response
Next ==
    \/ \E k \in KeyCodes : KeyPress(k)
    \/ RequestRefresh
    \/ SpawnTask
    \/ \E t \in BagToSet(tasks) : TaskDone(t)
    \/ ConsumeResult(FetchResultsOf(Collections), Responses)
    \/ ConsumeListChanged

Spec == Init /\ [][Next]_vars

(***************************************************************************)
(* Browsing: the keys that move the selection and cycle the criteria, and   *)
(* refreshes delivering every collection.                                   *)
(***************************************************************************)
BrowseKeys ==
    {Key("Char", "f"), Key("Char", "s"), Key("Down", ""), Key("Up", "")}

NextBrowse ==
    \/ \E k \in BrowseKeys : KeyPress(k)
    \/ RequestRefresh
    \/ SpawnTask
    \/ \E t \in BagToSet(tasks) : TaskDone(t)
    \/ ConsumeResult(FetchResultsOf(Collections), Responses)

SpecBrowse == Init /\ [][NextBrowse]_vars

(***************************************************************************)
(* Acting: every key but the two that cycle the criteria, the start and     *)
(* submit pipelines, and refreshes delivering the collections below.        *)
(***************************************************************************)
ActKeys == KeyCodes \ {Key("Char", "f"), Key("Char", "s")}

ActCollections == {<<MachineA, MachineB>>, <<MachineC>>}

NextAct ==
    \/ \E k \in ActKeys : KeyPress(k)
    \/ RequestRefresh
    \/ SpawnTask
    \/ \E t \in BagToSet(tasks) : TaskDone(t)
    \/ ConsumeResult(FetchResultsOf(ActCollections), Responses)
    \/ ConsumeListChanged

SpecAct == Init /\ [][NextAct]_vars

(***************************************************************************)
(* Starting: the keys that select a record, request its start and quit,     *)
(* with both pipelines; the loop keeps consuming the bus and every task     *)
(* runs to its end.                                                         *)
(***************************************************************************)
StartKeys == {Key("Down", ""), Key("Enter", ""), Key("Char", "q")}

NextStart ==
    \/ \E k \in StartKeys : KeyPress(k)
    \/ RequestRefresh
    \/ SpawnTask
    \/ \E t \in BagToSet(tasks) : TaskDone(t)
    \/ ConsumeResult(FetchResultsOf(ActCollections), Responses)
    \/ ConsumeListChanged

FairSpecStart ==
    /\ Init /\ [][NextStart]_vars
    /\ WF_vars(SpawnTask)
    /\ WF_vars(\E t \in BagToSet(tasks) : TaskDone(t))
    /\ WF_vars(ConsumeResult(FetchResultsOf(ActCollections), Responses))
    /\ WF_vars(ConsumeListChanged)

(***************************************************************************)
(* Input mode: every key but s (cycle_sort differs from cycle_filter only  *)
(* in the criterion it cycles), one letter typed in Flag mode (every       *)
(* character takes the same arm), the bootstrap's refresh delivering an    *)
(* active record that lacks a flag, and both pipelines.  No SubmitFlag     *)
(* event is ever sent (request_submit_flag reads selected_machine_id,      *)
(* which nothing writes), so the result of a submit is posted to the bus   *)
(* directly for the handler of SubmitResult to meet.                        *)
(***************************************************************************)
InputCollections == {<<MachineB>>}
InputKeys == KeyCodes \ {Key("Char", "s")}
FlagKeys ==
    {Key("Char", "a"), Key("Esc", ""), Key("Enter", ""), Key("Backspace", ""),
     Key("Tab", "")}
InputResponses == {Response(FALSE, 0), Response(TRUE, 200)}

\* a SubmitResult event for the selected record and the buffer is posted
PostSubmitResult ==
    /\ running
    /\ InFlight < MaxInFlight
    /\ input_mode = "Flag"
    /\ selected # None /\ selected[1] < Len(Projection)
    /\ Send(Event("SubmitResult", Projection[selected[1] + 1].id, flag_input))
    /\ UNCHANGED appVars
    /\ UNCHANGED <<tasks, catalog, fetch>>
    /\ last' = Step("post_submit_result", NoKey, TRUE,
                    <<Event("SubmitResult", Projection[selected[1] + 1].id, flag_input)>>)

\* the bootstrap's request, before the loop takes its first event
Bootstrap == last.op = "new" /\ RequestRefresh

NextInput ==
    \/ \E k \in InputKeys :
          /\ input_mode = "Normal" \/ k \in FlagKeys
          /\ KeyPress(k)
    \/ Bootstrap
    \/ PostSubmitResult
    \/ SpawnTask
    \/ \E t \in BagToSet(tasks) : TaskDone(t)
    \/ ConsumeResult(FetchResultsOf(InputCollections), InputResponses)
    \/ ConsumeListChanged

SpecInput == Init /\ [][NextInput]_vars

(***************************************************************************)
(* Editing: the buffer typed into up to MaxEditLen characters from two     *)
(* letters, every key but s in Normal mode, and the bootstrap's refresh.    *)
(***************************************************************************)
\* longest text typed in the editing specification
MaxEditLen == 2

EditKeys ==
    {Key("Char", "a"), Key("Char", "q"), Key("Esc", ""), Key("Enter", ""),
     Key("Backspace", ""), Key("Tab", "")}
EditResponses == {Response(TRUE, 200)}

NextEdit ==
    \/ \E k \in InputKeys :
          /\ input_mode = "Normal" \/ k \in EditKeys
          /\ KeyPressWithin(k, MaxEditLen, MaxInFlight)
    \/ Bootstrap
    \/ SpawnTask
    \/ \E t \in BagToSet(tasks) : TaskDone(t)
    \/ ConsumeResult(FetchResultsOf(InputCollections), EditResponses)
    \/ ConsumeListChanged

SpecEdit == Init /\ [][NextEdit]_vars

(***************************************************************************)
(* Picking: the keys that cycle the criteria, move the selection and       *)
(* request a start, over collections the projection reorders and shrinks.  *)
(***************************************************************************)
PickKeys ==
    {Key("Char", "f"), Key("Char", "s"), Key("Down", ""), Key("Enter", "")}

NextPick ==
    \/ \E k \in PickKeys : KeyPress(k)
    \/ Bootstrap
    \/ SpawnTask
    \/ \E t \in BagToSet(tasks) : TaskDone(t)
    \/ ConsumeResult(FetchResultsOf(ActCollections), EditResponses)
    \/ ConsumeListChanged

SpecPick == Init /\ [][NextPick]_vars

(***************************************************************************)
(* Refreshing: refreshes run request by request against a service that     *)
(* changes between them, and Down moves the selection.                      *)
(***************************************************************************)
FetchKeys == {Key("Down", "")}

NextFetch ==
    \/ \E k \in FetchKeys : KeyPress(k)
    \/ (fetch.pc = "idle" /\ RequestRefresh)
    \/ StartFetch
    \/ FetchActive
    \/ FetchRetired
    \/ FetchNext
    \/ FetchReturn
    \/ PostRefreshResult
    \/ ConsumeFetched
    \/ CatalogChanges

SpecFetch == Init /\ [][NextFetch]_vars

\* the refreshes alone
NextPaging ==
    \/ (fetch.pc = "idle" /\ RequestRefresh)
    \/ StartFetch
    \/ FetchActive
    \/ FetchRetired
    \/ FetchNext
    \/ FetchReturn
    \/ PostRefreshResult
    \/ ConsumeFetched
    \/ CatalogChanges

\* every request of a unit of work is answered and the unit goes on
FairSpecFetch ==
    /\ Init /\ [][NextPaging]_vars
    /\ WF_vars(FetchActive)
    /\ WF_vars(FetchRetired)
    /\ WF_vars(FetchNext)
    /\ WF_vars(FetchReturn)
    /\ WF_vars(PostRefreshResult)

(***************************************************************************)
(* Concurrency: up to MaxConcurrent requests, tasks and results            *)
(* outstanding at once; every unit of work runs to its end and the loop    *)
(* keeps consuming the bus.                                                 *)
(***************************************************************************)
\* most events and tasks outstanding at once in the concurrency specification
MaxConcurrent == 2

ConcKeys == {Key("Down", ""), Key("Enter", "")}
\* the requests the keys and the refreshes of this specification send
ConcRequests ==
    {Event("FetchMachines", 0, EmptyString),
     Event("SpawnMachine", MachineB.id, EmptyString)}

NextConc ==
    \/ \E k \in ConcKeys : KeyPressWithin(k, MaxFlagLen, MaxConcurrent)
    \/ RequestRefreshWithin(MaxConcurrent)
    \/ SpawnTask
    \/ \E t \in BagToSet(tasks) : TaskDone(t)
    \/ ConsumeResult(FetchResultsOf(InputCollections), InputResponses)
    \/ ConsumeListChanged

FairSpecConc ==
    /\ Init /\ [][NextConc]_vars
    /\ WF_vars(SpawnTask)
    /\ \A t \in ConcRequests : WF_vars(TaskDone(t))
    /\ WF_vars(ConsumeResult(FetchResultsOf(InputCollections), InputResponses))
    /\ WF_vars(ConsumeListChanged)

(***************************************************************************)
(* Properties.                                                              *)
(***************************************************************************)
KeyDown == Key("Down", "")
KeyUp == Key("Up", "")
KeyEnter == Key("Enter", "")

\* a record stands at the selection index of the current projection
HasSelectedMachine == selected # None /\ selected[1] < Len(Projection)
\* that record
SelectedMachine == Projection[selected[1] + 1]
\* the guard of the enter-text command, read off the projection
EnterTextGuard ==
    /\ HasSelectedMachine
    /\ is_active(SelectedMachine)
    /\ (~SelectedMachine.auth_user_in_user_owns
        \/ ~SelectedMachine.auth_user_in_root_owns)

Min(a, b) == IF a <= b THEN a ELSE b

\* C1: in every reachable state the selection index is none or less than
\* the length of the current projection.
C1_SelectionInRange ==
    selected # None => selected[1] < Len(Projection)

\* C2: a successful refresh result applied while index i is set leaves the
\* selection at min(i, L-1), L the length of the new projection, and at
\* none when L = 0.
C2_RefreshClampsSelection ==
    (last.op = "refresh_result" /\ last.ok /\ last.selected # None) =>
        selected = IF Len(Projection) = 0
                   THEN None
                   ELSE Some(Min(last.selected[1], Len(Projection) - 1))

\* C3: Enter in Flag mode, the selected record satisfying the enter-text
\* guard, sends exactly one SubmitFlag event with that record's id and the
\* contents of the flag buffer.
C3_SubmitEmitsRequest ==
    (last.op = "key" /\ last.key = KeyEnter /\ last.input_mode = "Flag"
     /\ EnterTextGuard) =>
        last.sent = <<Event("SubmitFlag", SelectedMachine.id, flag_input)>>

\* C4: Enter in Normal mode on an active selected record sets an "already
\* active" message and sends no SpawnMachine event.
C4_NoStartWhenActive ==
    (last.op = "key" /\ last.key = KeyEnter /\ last.input_mode = "Normal"
     /\ HasSelectedMachine /\ is_active(SelectedMachine)) =>
        /\ last.sent = <<>>
        /\ info_message # EmptyString
        /\ info_message[Len(info_message)] = " is already active."

\* C5: the key a in Normal mode sets the mode to Flag exactly when a record
\* is selected in the current projection, is active and lacks a completion
\* flag; otherwise the step changes nothing of the application, the bus or
\* the tasks.
C5_EnterTextGuarded ==
    [][(last'.op = "key" /\ last'.key = Key("Char", "a")
        /\ input_mode = "Normal") =>
           IF EnterTextGuard
           THEN input_mode' = "Flag"
           ELSE UNCHANGED <<appVars, bus, tasks>>]_vars

\* the key a has just switched Normal to Flag
C5_Witness ==
    /\ last.op = "key" /\ last.key = Key("Char", "a")
    /\ last.input_mode = "Normal"
    /\ input_mode = "Flag"
    /\ EnterTextGuard

\* C6: with an empty projection Down and Up leave the selection at none.
C6_EmptyStaysNone ==
    (last.op = "key" /\ last.key \in {KeyDown, KeyUp}
     /\ last.input_mode = "Normal" /\ last.selected = None
     /\ Len(Projection) = 0) =>
        selected = None

\* C7: with a projection of length L >= 1, Down from L-1 gives 0 and from
\* i < L-1 gives i+1; Up from 0 gives L-1 and from i > 0 gives i-1.
C7_Wraparound ==
    (last.op = "key" /\ last.input_mode = "Normal" /\ last.selected # None
     /\ Len(Projection) >= 1) =>
        LET i == last.selected[1]
            L == Len(Projection)
        IN  /\ (last.key = KeyDown /\ i = L - 1) => selected = Some(0)
            /\ (last.key = KeyDown /\ i < L - 1) => selected = Some(i + 1)
            /\ (last.key = KeyUp /\ i = 0) => selected = Some(L - 1)
            /\ (last.key = KeyUp /\ i > 0) => selected = Some(i - 1)

\* Down has just wrapped from the last of two records to the first
C7_Witness ==
    /\ last.op = "key" /\ last.key = KeyDown
    /\ last.selected = Some(1)
    /\ Len(Projection) = 2
    /\ selected = Some(0)

\* C8: after the key f and after the key s in Normal mode the selection is
\* none, whatever it was.
C8_CycleClearsSelection ==
    (last.op = "key" /\ last.input_mode = "Normal"
     /\ last.key \in {Key("Char", "f"), Key("Char", "s")}) =>
        selected = None

\* the key f has just cleared a selection that was set
C8_Witness ==
    /\ last.op = "key" /\ last.key = Key("Char", "f")
    /\ last.selected # None
    /\ selected = None

C10_DerivedFields ==
    IF HasSelectedMachine
    THEN /\ selected_machine_ip = SelectedMachine.ip
         /\ selected_machine_id = Some(SelectedMachine.id)
    ELSE /\ selected_machine_ip = None
         /\ selected_machine_id = None

\* C11: the input mode changes only in a key step, either from Normal to
\* Flag by the key a with the enter-text guard holding, or from Flag to
\* Normal by Esc; Enter in Flag mode, buffer edits, every other key and the
\* consumption of refresh, start and submit results leave it as it was.
C11_ModeTransitions ==
    input_mode # last.input_mode =>
        /\ last.op = "key"
        /\ \/ /\ last.input_mode = "Normal" /\ input_mode = "Flag"
              /\ last.key = Key("Char", "a")
              /\ EnterTextGuard
           \/ /\ last.input_mode = "Flag" /\ input_mode = "Normal"
              /\ last.key = Key("Esc", "")

\* Enter has just been pressed in Flag mode and the mode is still Flag
C11_Witness ==
    /\ last.op = "key" /\ last.key = KeyEnter
    /\ last.input_mode = "Flag"
    /\ input_mode = "Flag"

\* C12: Esc in Flag mode sets the mode to Normal and leaves the buffer as
\* it was, and the key a that enters Flag mode again leaves it as it was.
C12_CancelKeepsBuffer ==
    [][/\ (last'.op = "key" /\ last'.key = Key("Esc", "")
            /\ input_mode = "Flag") =>
               (input_mode' = "Normal" /\ flag_input' = flag_input)
       /\ (last'.op = "key" /\ last'.key = Key("Char", "a")
            /\ input_mode = "Normal") =>
               flag_input' = flag_input]_vars

\* Flag mode has just been entered again with the text typed before Esc
C12_Witness ==
    /\ last.op = "key" /\ last.key = Key("Char", "a")
    /\ last.input_mode = "Normal"
    /\ input_mode = "Flag"
    /\ flag_input = <<"a", "q">>

\* C13: in Flag mode a character key appends its character to the end of
\* the buffer and Backspace removes the last character, nothing of an empty
\* buffer; in Normal mode no key changes the buffer.
C13_BufferEdits ==
    [][last'.op = "key" =>
         IF input_mode = "Flag"
         THEN /\ last'.key.code = "Char" =>
                    flag_input' = flag_input \o <<last'.key.c>>
              /\ last'.key.code = "Backspace" =>
                    flag_input' = IF Len(flag_input) = 0
                                  THEN EmptyString
                                  ELSE [i \in 1..(Len(flag_input) - 1) |-> flag_input[i]]
         ELSE flag_input' = flag_input]_vars

\* Backspace has just taken the last of two different characters
C13_Witness ==
    /\ last.op = "key" /\ last.key = Key("Backspace", "")
    /\ last.input_mode = "Flag"
    /\ flag_input = <<"q">>

\* C14: Enter in Normal mode sends one SpawnMachine event carrying the id of
\* the record at the selection index of the current projection when there
\* is such a record, and sends nothing when the selection is none or the
\* index is out of range.
C14_StartTargetsProjection ==
    (last.op = "key" /\ last.key = KeyEnter /\ last.input_mode = "Normal") =>
        last.sent = IF HasSelectedMachine
                    THEN <<Event("SpawnMachine", SelectedMachine.id, EmptyString)>>
                    ELSE <<>>

\* a start has just been requested, under criteria that are not the
\* initial ones, for a record that is not the one at that index of the raw
\* collection
C14_Witness ==
    /\ last.op = "key" /\ last.key = KeyEnter
    /\ last.input_mode = "Normal"
    /\ HasSelectedMachine
    /\ sort_criteria = "RootOwns"
    /\ machines[selected[1] + 1].id # SelectedMachine.id
    /\ last.sent = <<Event("SpawnMachine", SelectedMachine.id, EmptyString)>>

\* the urls fetch_all_machines requests of the service cat when none fails
UrlsOf(cat) == {ActiveUrl} \cup DOMAIN cat.retired
\* some page request fails
AnyPageFails(cat) == \E u \in UrlsOf(cat) : ~PageAt(cat, u).ok
\* the first request that fails
FirstFailing(cat) ==
    CHOOSE u \in UrlsOf(cat) :
        /\ ~PageAt(cat, u).ok
        /\ \A v \in UrlsOf(cat) : v < u => PageAt(cat, v).ok
\* the records of the retired pages from page i on, in page order
RECURSIVE RetiredFrom(_, _)
RetiredFrom(cat, i) ==
    IF i > Len(cat.retired)
    THEN <<>>
    ELSE cat.retired[i].data \o RetiredFrom(cat, i + 1)
\* the records at index i of the projection the step arrives at
SelectedAfter ==
    LET sorted == project(machines', filter_criteria', sort_criteria')
    IN  IF selected' # None /\ selected'[1] < Len(sorted)
        THEN Some(sorted[selected'[1] + 1])
        ELSE None

\* C15: consuming a successful refresh result makes the collection the
\* result's payload, sets the stored address and id to those of the record
\* at the selection index of the new projection (none without such a
\* record), and leaves both criteria, the input mode and the buffer alone.
C15_RefreshReplacesCollection ==
    [][(last'.op = "refresh_result" /\ last'.ok) =>
          /\ machines' = Head(bus).result.machines
          /\ selected_machine_ip' =
                IF SelectedAfter # None THEN SelectedAfter[1].ip ELSE None
          /\ selected_machine_id' =
                IF SelectedAfter # None THEN Some(SelectedAfter[1].id) ELSE None
          /\ UNCHANGED <<filter_criteria, sort_criteria, input_mode,
                         flag_input>>]_vars

\* C16: when a page request fails, fetch_all_machines returns the error of
\* that request and no collection, the one event posted carries it, and
\* consuming it sets the message to the error's text and leaves the
\* collection, the selection, both criteria and running as they were.
C16_FetchFailure ==
    [][/\ (fetch'.pc = "done" /\ AnyPageFails(catalog')) =>
             fetch'.result = FetchErr(PageError(FirstFailing(catalog')))
       /\ last'.op = "post_refresh_result" =>
             bus' = Append(bus, [Event("RefreshResult", 0, EmptyString)
                                   EXCEPT !.result = fetch.result])
       /\ (last'.op = "refresh_result" /\ ~last'.ok) =>
             /\ info_message' =
                   <<"Error fetching machines: ">> \o Head(bus).result.e
             /\ running'
             /\ UNCHANGED <<machines, selected, filter_criteria,
                            sort_criteria, running>>]_vars

\* the failure of the second retired page has just been consumed with a
\* collection and a selection in place
C16_Witness ==
    /\ last.op = "refresh_result" /\ ~last.ok
    /\ machines # <<>>
    /\ selected = Some(1)
    /\ info_message = <<"Error fetching machines: ">> \o PageError(2)

\* C17: consuming a failed start or submit result sets the message and
\* changes nothing else of the application, takes the event off the bus and
\* puts no event on it, and starts no task.
C17_ActionFailure ==
    [][(last'.op \in {"start_result", "submit_result"} /\ ~last'.ok) =>
          /\ info_message'[1] = IF last'.op = "start_result"
                                THEN "Error spawning machine: "
                                ELSE "Error sending flag: "
          /\ bus' = Tail(bus)
          /\ UNCHANGED <<running, machines, selected, filter_criteria,
                         sort_criteria, input_mode, flag_input,
                         show_input_field, selected_machine_ip,
                         selected_machine_id, tasks>>]_vars

\* a failed submit result has just been consumed in Flag mode with text in
\* the buffer
C17_Witness ==
    /\ last.op = "submit_result" /\ ~last.ok
    /\ input_mode = "Flag"
    /\ flag_input # EmptyString
    /\ machines # <<>>
    /\ bus = <<>>

\* C18: a page whose detail request for an active record fails with a
\* transport error is fetched all the same, the record is in what
\* fetch_all_machines returns, without an address, and neither the fetch
\* nor the consumption of its result changes the message.
C18_EnrichmentFailure ==
    [][/\ (last'.op = "fetch_page" /\ fetch.pc = "active" /\ catalog.active.ok) =>
             /\ fetch'.pc = "retired"
             /\ \A i \in DOMAIN catalog.active.data :
                   LET m == catalog.active.data[i]
                   IN  (is_active(m) /\ catalog.profile[m.id] = "transport") =>
                          (fetch'.all_machines[i].id = m.id
                           /\ fetch'.all_machines[i].ip = None)
       /\ (fetch'.pc = "done" /\ fetch'.result.ok) =>
             \A i \in DOMAIN catalog.active.data :
                 LET m == catalog.active.data[i]
                 IN  (is_active(m) /\ catalog.profile[m.id] = "transport") =>
                        (fetch'.result.machines[i].id = m.id
                         /\ fetch'.result.machines[i].ip = None)
       /\ (last'.op \in {"fetch_page", "fetch_return", "post_refresh_result"}
           \/ (last'.op = "refresh_result" /\ last'.ok)) =>
             info_message' = info_message]_vars

\* a collection has just arrived in which the active record 2, whose
\* detail request failed, has no address, and no message is set
C18_Witness ==
    /\ last.op = "refresh_result" /\ last.ok
    /\ catalog.profile[MachineB.id] = "transport"
    /\ \E i \in DOMAIN machines :
          machines[i].id = MachineB.id /\ machines[i].ip = None
    /\ info_message = EmptyString

\* C19: over a retired series that is a chain of pages none of which
\* fails, fetch_all_machines returns the records of the active page
\* followed by those of every retired page in page order, each once, and
\* every call of fetch_all_machines returns.
C19_PaginationTerminates ==
    /\ [](( fetch.pc = "done" /\ ~AnyPageFails(catalog)) =>
            /\ fetch.result.ok
            /\ Len(fetch.result.machines) =
                  Len(catalog.active.data) + Len(RetiredFrom(catalog, 1))
            /\ \A i \in DOMAIN fetch.result.machines :
                  fetch.result.machines[i].id =
                      (catalog.active.data \o RetiredFrom(catalog, 1))[i].id
            /\ \A i, j \in DOMAIN fetch.result.machines :
                  i # j => fetch.result.machines[i].id # fetch.result.machines[j].id)
    /\ (fetch.pc # "idle") ~> (fetch.pc = "done")

\* fetch_all_machines has returned the five records of a service with
\* three retired pages
C19_Witness ==
    /\ fetch.pc = "done"
    /\ Len(catalog.retired) = 3
    /\ ~AnyPageFails(catalog)
    /\ fetch.result.ok
    /\ Len(fetch.result.machines) = 5

\* the pipeline an event belongs to
KindOf(e) ==
    CASE e.type \in {"FetchMachines", "RefreshResult"} -> "refresh"
      [] e.type \in {"SpawnMachine", "StartResult"} -> "start"
      [] e.type \in {"SubmitFlag", "SubmitResult"} -> "submit"
      [] OTHER -> "none"
Kinds == {"refresh", "start", "submit"}
\* how many events of b satisfy Test
NumOn(b, Test(_)) == Cardinality({i \in DOMAIN b : Test(b[i])})
\* the requests of kind k on the bus b
NumRequests(b, k) ==
    NumOn(b, LAMBDA e : e.type \in Requests /\ KindOf(e) = k)
\* the result events of kind k on the bus b
NumResults(b, k) ==
    NumOn(b, LAMBDA e : e.type \in Results /\ KindOf(e) = k)
\* the units of work of kind k in the bag t
RECURSIVE NumCopies(_, _, _)
NumCopies(t, S, k) ==
    IF S = {}
    THEN 0
    ELSE LET x == CHOOSE y \in S : TRUE
         IN  (IF KindOf(x) = k THEN CopiesIn(x, t) ELSE 0)
             + NumCopies(t, S \ {x}, k)
NumTasks(t, k) == NumCopies(t, BagToSet(t), k)
\* the step consumes the result event of kind k
Consumes(op, k) ==
    \/ k = "refresh" /\ op = "refresh_result"
    \/ k = "start" /\ op = "start_result"
    \/ k = "submit" /\ op = "submit_result"

\* C20: of every kind, the requests on the bus, the units of work and the
\* result events on the bus together grow by the requests a step sends and
\* shrink by the result event it consumes, and by nothing else; a result
\* event appears exactly when one unit of work of its kind ends, one event
\* for one unit; the application's state changes in no step but a key
\* press and the consumption of a result; and every request on the bus
\* leads to its result event being posted.
C20_OneResultPerRequest ==
    /\ [][\A k \in Kinds :
            /\ NumRequests(bus', k) + NumTasks(tasks', k) + NumResults(bus', k) =
                  NumRequests(bus, k) + NumTasks(tasks, k) + NumResults(bus, k)
                  + NumRequests(last'.sent, k)
                  - (IF Consumes(last'.op, k) THEN 1 ELSE 0)
            /\ NumResults(bus', k) > NumResults(bus, k) =>
                  /\ NumResults(bus', k) = NumResults(bus, k) + 1
                  /\ NumTasks(tasks', k) = NumTasks(tasks, k) - 1
            /\ NumTasks(tasks', k) < NumTasks(tasks, k) =>
                  /\ NumTasks(tasks', k) = NumTasks(tasks, k) - 1
                  /\ NumResults(bus', k) = NumResults(bus, k) + 1
            /\ NumTasks(tasks', k) > NumTasks(tasks, k) =>
                  /\ NumTasks(tasks', k) = NumTasks(tasks, k) + 1
                  /\ NumRequests(bus', k) = NumRequests(bus, k) - 1]_vars
    /\ [][appVars' # appVars =>
            last'.op \in {"key", "refresh_result", "start_result",
                          "submit_result"}]_vars
    /\ \A r \in ConcRequests :
          (\E i \in DOMAIN bus : bus[i] = r)
             ~> (last.op = "task_done" /\ last.sent = <<ResultOf(r)>>)

\* a refresh and a start are in flight together and the result of one has
\* just been posted
C20_Witness ==
    /\ last.op = "task_done"
    /\ NumResults(bus, "start") = 1
    /\ NumTasks(tasks, "refresh") = 1

(***************************************************************************)
(* Cycling the criteria.                                                    *)
(***************************************************************************)
KeyF == Key("Char", "f")
KeyS == Key("Char", "s")

\* the step is the key k handled in Normal mode
NormalKey(k) ==
    last'.op = "key" /\ last'.key = k /\ last'.input_mode = "Normal"

\* C21: one press of f followed by three more applications of the filter
\* cycle returns to the criterion the press started from, and none of the
\* first three applications does; the same for s and the sort cycle.
C21_CycleClosure ==
    [][/\ NormalKey(KeyF) =>
            /\ filter_criteria' # filter_criteria
            /\ next_filter(filter_criteria') # filter_criteria
            /\ next_filter(next_filter(filter_criteria')) # filter_criteria
            /\ next_filter(next_filter(next_filter(filter_criteria')))
                 = filter_criteria
            /\ sort_criteria' = sort_criteria
       /\ NormalKey(KeyS) =>
            /\ sort_criteria' # sort_criteria
            /\ next_sort(sort_criteria') # sort_criteria
            /\ next_sort(next_sort(sort_criteria')) # sort_criteria
            /\ next_sort(next_sort(next_sort(sort_criteria')))
                 = sort_criteria
            /\ filter_criteria' = filter_criteria]_vars

\* the press of f that returns the filter to the criterion of App::new,
\* with the sort cycle part of the way round
C21_Witness ==
    /\ last.op = "key" /\ last.key = KeyF /\ last.input_mode = "Normal"
    /\ filter_criteria = "None"
    /\ sort_criteria = "Name"

(***************************************************************************)
(* Projecting: the keys that cycle the criteria, and refreshes delivering   *)
(* every collection of up to MaxProjected records out of four whose flags   *)
(* cover the four combinations and whose sort keys tie.                     *)
(***************************************************************************)
\* longest collection a refresh delivers in the projecting specification
MaxProjected == 3

\* active, with the user flag only; ties with A on difficulty, root owns and
\* name, with C on user owns
MachineD == Machine(4, <<97>>, 2, 7, TRUE, 3, FALSE, ValueNumber(1), Some("10.10.10.4"))

ProjectPool == MachinePool \cup {MachineD}

ProjectCollections ==
    {c \in UNION {[1..n -> ProjectPool] : n \in 0..MaxProjected} :
        \A i, j \in DOMAIN c : i # j => c[i].id # c[j].id}

ProjectKeys == {Key("Char", "f"), Key("Char", "s")}

NextProject ==
    \/ \E k \in ProjectKeys : KeyPress(k)
    \/ RequestRefresh
    \/ SpawnTask
    \/ \E t \in BagToSet(tasks) : TaskDone(t)
    \/ ConsumeResult(FetchResultsOf(ProjectCollections), EditResponses)

SpecProject == Init /\ [][NextProject]_vars

\* the records of a sequence
Records(ms) == {ms[i] : i \in DOMAIN ms}

\* the record satisfies the predicate of the filter criterion f
Satisfies(m, f) ==
    \/ f = "None"
    \/ f = "UserNotOwns" /\ m.auth_user_in_user_owns = FALSE
    \/ f = "RootNotOwns" /\ m.auth_user_in_root_owns = FALSE
    \/ /\ f = "UserAndRootNotOwns"
       /\ m.auth_user_in_user_owns = FALSE
       /\ m.auth_user_in_root_owns = FALSE

\* C22: the filtered collection and the projection hold exactly the records
\* of the collection that satisfy the predicate of the filter criterion,
\* each once and in the order of the collection before sorting; of a record
\* that has both flags, one that lacks the user flag and one that lacks
\* both, UserAndRootNotOwns keeps the last alone.
C22_FilterExact ==
    LET kept == {i \in DOMAIN machines : Satisfies(machines[i], filter_criteria)}
        out == filtered_machines(machines, filter_criteria)
    IN  /\ Records(out) = {machines[i] : i \in kept}
        /\ Len(out) = Cardinality(kept)
        /\ \A i, j \in DOMAIN out :
              i < j => \E a, b \in kept :
                          a < b /\ machines[a] = out[i] /\ machines[b] = out[j]
        /\ Records(Projection) = {machines[i] : i \in kept}
        /\ Len(Projection) = Cardinality(kept)
        /\ (machines = <<MachineA, MachineB, MachineC>>
            /\ filter_criteria = "UserAndRootNotOwns")
              => Projection = <<MachineC>>

\* the scenario of the claim: B, which lacks one flag only, is dropped
C22_Witness ==
    /\ machines = <<MachineA, MachineB, MachineC>>
    /\ filter_criteria = "UserAndRootNotOwns"
    /\ Projection = <<MachineC>>
    /\ last.op = "key"

\* a is not after b in the lexicographic order on bytes
NameLeq(a, b) ==
    \/ Len(a) <= Len(b) /\ SubSeq(b, 1, Len(a)) = a
    \/ \E k \in 1..Min(Len(a), Len(b)) :
          /\ SubSeq(a, 1, k - 1) = SubSeq(b, 1, k - 1)
          /\ a[k] < b[k]

\* m does not come after n in the order of the sort criterion s
InOrder(m, n, s) ==
    \/ s = "Difficulty" /\ m.difficulty <= n.difficulty
    \/ s = "UserOwns" /\ m.user_owns_count >= n.user_owns_count
    \/ s = "RootOwns" /\ m.root_owns_count >= n.root_owns_count
    \/ s = "Name" /\ NameLeq(m.name, n.name)

\* m and n have the same key under s
SameKey(m, n, s) == InOrder(m, n, s) /\ InOrder(n, m, s)

\* where the record stands in the collection
PositionOf(m) == CHOOSE i \in DOMAIN machines : machines[i] = m

\* C23: the projection is ordered by the key of the sort criterion
\* (difficulty ascending, user owns descending, root owns descending, name
\* ascending), and records with equal keys stand in the order they have in
\* the collection.
C23_SortedStable ==
    \A i, j \in DOMAIN Projection :
        i < j =>
            /\ InOrder(Projection[i], Projection[j], sort_criteria)
            /\ SameKey(Projection[i], Projection[j], sort_criteria)
                  => PositionOf(Projection[i]) < PositionOf(Projection[j])

\* two records with equal keys keep their order while a third moves behind
\* them
C23_Witness ==
    /\ machines = <<MachineA, MachineB, MachineC>>
    /\ filter_criteria = "None"
    /\ sort_criteria = "Difficulty"
    /\ Projection = <<MachineB, MachineC, MachineA>>

\* C24: sorting an unfiltered projection again under the same sort criterion
\* gives that projection back.
C24_ProjectIdempotent ==
    project(project(machines, "None", sort_criteria), "None", sort_criteria)
        = project(machines, "None", sort_criteria)

\* a collection the sort reorders, with two equal keys
C24_Witness ==
    /\ machines = <<MachineA, MachineC, MachineB>>
    /\ sort_criteria = "UserOwns"
    /\ project(machines, "None", sort_criteria) = <<MachineC, MachineA, MachineB>>

(***************************************************************************)
(* Gateway: the start and submit pipelines against a service whose answer  *)
(* to the POST ranges over a transport error and statuses on both sides of *)
(* the 2xx class.  The answer is part of the service; the result event at  *)
(* the head of the bus is consumed with the answer the service gave.        *)
(***************************************************************************)
GatewayStatuses == {199, 200, 204, 299, 300, 404, 500}
GatewayResponses ==
    {Response(FALSE, 0)} \cup {Response(TRUE, s) : s \in GatewayStatuses}

\* the service of App::new that answers the POST of a start or a submit by r
Answering(r) ==
    [active |-> Serve(1, 2, "ip").active,
     retired |-> Serve(1, 2, "ip").retired,
     profile |-> Serve(1, 2, "ip").profile,
     post |-> r]

\* the service answers the request whose result is next on the bus
ServiceAnswers ==
    /\ running
    /\ bus # <<>>
    /\ Head(bus).type \in {"StartResult", "SubmitResult"}
    /\ \E r \in GatewayResponses : catalog' = Answering(r)
    /\ catalog' # catalog
    /\ UNCHANGED <<appVars, bus, tasks, fetch>>
    /\ last' = Step("service_answers", NoKey, TRUE, <<>>)

\* the state owner consumes the result at the head of the bus; a start or
\* submit result is the gateway's outcome for the answer of the service
ConsumeAnswered ==
    ConsumeResult(FetchResultsOf(InputCollections),
                  IF "post" \in DOMAIN catalog THEN {catalog.post} ELSE {})

GatewayKeys == {Key("Down", ""), Key("Char", "a"), Key("Enter", "")}

NextGateway ==
    \/ \E k \in GatewayKeys : KeyPress(k)
    \/ Bootstrap
    \/ PostSubmitResult
    \/ SpawnTask
    \/ \E t \in BagToSet(tasks) : TaskDone(t)
    \/ ServiceAnswers
    \/ ConsumeAnswered
    \/ ConsumeListChanged

SpecGateway == Init /\ [][NextGateway]_vars

\* the transport succeeded and the status is of the 2xx class
Succeeded(r) == r.transport_ok /\ r.status >= 200 /\ r.status <= 299

\* C25: a start or submit result is a success exactly when the transport
\* succeeded and the status is of the 2xx class; a submit answered by any
\* other status gives the one "Wrong flag" error, whatever the status, and a
\* start answered by any other status gives an error.
C25_GatewayOutcome ==
    (last.op \in {"start_result", "submit_result"}) =>
        /\ last.ok <=> Succeeded(catalog.post)
        /\ (last.op = "submit_result" /\ catalog.post.transport_ok
            /\ ~Succeeded(catalog.post))
              => info_message = <<"Error sending flag: ", "Wrong flag for machine ",
                                  IdText(MachineB.id)>>
        /\ (last.op = "submit_result" /\ Succeeded(catalog.post))
              => info_message = <<"Flag for machine ", IdText(MachineB.id),
                                  " is correct">>
        /\ (last.op = "start_result" /\ Succeeded(catalog.post))
              => info_message = <<"Machine ", IdText(MachineB.id),
                                  " spawned successfully">>
        /\ (last.op = "start_result" /\ ~Succeeded(catalog.post))
              => info_message[1] = "Error spawning machine: "

\* a submit answered 404 has just been consumed as a failure
C25_Witness ==
    /\ last.op = "submit_result" /\ ~last.ok
    /\ catalog.post = Response(TRUE, 404)
    /\ info_message = <<"Error sending flag: ", "Wrong flag for machine ",
                        IdText(MachineB.id)>>

(***************************************************************************)
(* Wire values: refreshes run request by request against a service whose   *)
(* active list serves one record, lacking the user flag, with every wire   *)
(* value of the active field; Down selects it.                              *)
(***************************************************************************)
WireValues ==
    {ValueBool(TRUE), ValueBool(FALSE), ValueNumber(0), ValueNumber(1),
     ValueNumber(2), ValueNull, ValueString(1)}

\* the service whose active list serves record 2 with the active field v
WireServe(v) ==
    [active |-> Page(TRUE, <<[Listed(MachineB) EXCEPT !.active = v]>>, None),
     retired |-> Serve(2, 3, "ip").retired,
     profile |-> Serve(2, 3, "ip").profile]

WireCatalogs == {WireServe(v) : v \in WireValues}

\* the service changes between two refreshes
WireChanges ==
    /\ fetch.pc = "idle"
    /\ bus = <<>>
    /\ \E c \in WireCatalogs : catalog' = c
    /\ catalog' # catalog
    /\ UNCHANGED <<appVars, bus, tasks, fetch>>
    /\ last' = Step("catalog_changes", NoKey, TRUE, <<>>)

NextWire ==
    \/ \E k \in FetchKeys : KeyPress(k)
    \/ (fetch.pc = "idle" /\ RequestRefresh)
    \/ StartFetch
    \/ FetchActive
    \/ FetchRetired
    \/ FetchNext
    \/ FetchReturn
    \/ PostRefreshResult
    \/ ConsumeFetched
    \/ WireChanges

SpecWire == Init /\ [][NextWire]_vars

\* the wire value is the boolean true or the integer 1
WireTrue(v) == v = ValueBool(TRUE) \/ v = ValueNumber(1)

\* C26: is_active of a record of the collection is true exactly when the
\* wire value of its active field is the boolean true or the integer 1; a
\* record has been enriched with its address exactly in that case, and text
\* entry is enabled exactly when the selected record has such a wire value
\* and lacks a flag.
C26_IsActiveNormalized ==
    /\ \A i \in DOMAIN machines :
          /\ is_active(machines[i]) <=> WireTrue(machines[i].active)
          /\ machines[i].ip # None <=> WireTrue(machines[i].active)
    /\ show_input_field <=>
          /\ HasSelectedMachine
          /\ WireTrue(SelectedMachine.active)
          /\ (~SelectedMachine.auth_user_in_user_owns
              \/ ~SelectedMachine.auth_user_in_root_owns)

\* the record served with the integer 0 is selected: it has no address and
\* text entry is not enabled
C26_Witness ==
    /\ HasSelectedMachine
    /\ SelectedMachine.id = MachineB.id
    /\ SelectedMachine.active = ValueNumber(0)
    /\ SelectedMachine.ip = None
    /\ ~show_input_field

(***************************************************************************)
(* The flag that enables text entry.                                        *)
(***************************************************************************)
\* C27: in every reachable state show_input_field is true exactly when a
\* selection index is set, it is within the current projection, and the
\* record at it is active and lacks a completion flag: every operation that
\* changes the collection, a criterion or the selection recomputes it.
C27_ShowInputField ==
    show_input_field <=>
        /\ selected # None
        /\ selected[1] < Len(Projection)
        /\ is_active(Projection[selected[1] + 1])
        /\ (~Projection[selected[1] + 1].auth_user_in_user_owns
            \/ ~Projection[selected[1] + 1].auth_user_in_root_owns)

\* a refresh has just delivered a collection under a filter that drops part
\* of it, and the record at the selection index enables text entry
C27_Witness ==
    /\ last.op = "refresh_result" /\ last.ok
    /\ filter_criteria = "UserNotOwns"
    /\ Len(Projection) < Len(machines)
    /\ selected = Some(0)
    /\ show_input_field

(***************************************************************************)
(* The guard of text entry while the mode is Flag.                          *)
(***************************************************************************)
\* C28: whenever the input mode is Flag, the record at the selection index
\* of the current projection is active and lacks a completion flag, also
\* after a refresh result applied in Flag mode.
C28_GuardHoldsInFlagMode ==
    input_mode = "Flag" => EnterTextGuard

\* C28, amended: the guard holds when the mode becomes Flag and keeps
\* holding through every step in Flag mode but a successful refresh result;
\* a refresh result applied in Flag mode leaves the mode Flag and recomputes
\* show_input_field, which is then false if the record at the selection
\* index is no longer active or lacks no flag.
C28_GuardUntilRefresh ==
    [][/\ (input_mode = "Normal" /\ input_mode' = "Flag") => EnterTextGuard'
       /\ (input_mode = "Flag" /\ input_mode' = "Flag" /\ EnterTextGuard
           /\ ~(last'.op = "refresh_result" /\ last'.ok))
             => EnterTextGuard'
       /\ (input_mode = "Flag" /\ last'.op = "refresh_result")
             => /\ input_mode' = "Flag"
                /\ show_input_field' <=> EnterTextGuard']_vars

\* a refresh applied in Flag mode has put an inactive record at the
\* selection index: the mode is still Flag and text entry is not enabled
C28_Witness ==
    /\ last.op = "refresh_result" /\ last.ok
    /\ last.input_mode = "Flag"
    /\ input_mode = "Flag"
    /\ HasSelectedMachine
    /\ ~is_active(SelectedMachine)
    /\ ~show_input_field

(***************************************************************************)
(* Typing: every key in Flag mode, the keys that select a record and enter *)
(* Flag mode in Normal mode, and refreshes.                                 *)
(***************************************************************************)
TypingKeys == {Key("Down", ""), Key("Char", "a")}

NextTyping ==
    \/ \E k \in KeyCodes :
          /\ input_mode = "Flag" \/ k \in TypingKeys
          /\ KeyPress(k)
    \/ RequestRefresh
    \/ SpawnTask
    \/ \E t \in BagToSet(tasks) : TaskDone(t)
    \/ ConsumeResult(FetchResultsOf(ActCollections), EditResponses)

SpecTyping == Init /\ [][NextTyping]_vars

====
